---- MODULE Spec2Model ----
(***************************************************************************)
(* Deep research backend: the threaded service variant (models.py,         *)
(* services.py, serializers.py) and the synchronous view variant           *)
(* (views.py, langgraph_client.py).                                        *)
(*                                                                         *)
(* Text is a sequence of symbols.  A symbol is one character (" ", "\n",   *)
(* "[", "a", ...), one of the three section labels of the summary          *)
(* template, or one fixed literal of the code (named by its first words).  *)
(* The tokenizer (tiktoken) is abstracted as one token per character or    *)
(* label and one token per word of a literal.                              *)
(***************************************************************************)
EXTENDS Integers, Sequences, FiniteSets, TLC

VARIABLES
    sessions,     \* ResearchSession rows, by id
    summaries,    \* ResearchSummary rows, by session id
    reasonings,   \* ResearchReasoning rows, by session id
    costs,        \* ResearchCost rows, by session id
    documents,    \* UploadedDocument rows, in creation order
    threads,      \* the background thread of each dispatched session
    vsessions,    \* views.py: ResearchSession rows, by id
    inflight,     \* views.py: the handlers blocked in run_research, by session id
    http_response,\* views.py: the last HTTP response
    unit          \* the objects of a run of one component on its own

\* The variables of the system: the services variant, the views variant.
mvars == <<sessions, summaries, reasonings, costs, documents, threads,
           vsessions, inflight, http_response>>
\* What views.py leaves alone, and what ResearchService leaves alone.
svars == <<sessions, summaries, reasonings, costs, documents, threads, unit>>
vvars == <<vsessions, inflight, http_response, unit>>
vars == <<svars, vvars>>

\* ---------------------------------------------------------------- bounds
MaxSessions == 2

SessionIds == 1..MaxSessions

\* None, for an optional text (no symbol of a text is "<None>").
Null == <<"<None>">>

\* ------------------------------------------------------------------ text
Min(a, b) == IF a < b THEN a ELSE b

NL == <<"\n">>

IsSpace(c) == c \in {" ", "\n"}

\* A run of one character: 1000 times "[", 500 times "X".
DeepOpen == "[ x 1000"
Block == "X x 500"

RunLength(c) ==
    CASE c = DeepOpen -> 1000
      [] c = Block -> 500
      [] OTHER -> 1

RunChar(c) ==
    CASE c = DeepOpen -> "["
      [] c = Block -> "X"
      [] OTHER -> c

\* The characters of a symbol: of a label, of a run, of itself.
Expand(c) ==
    CASE c = "SUMMARY:" -> <<"S", "U", "M", "M", "A", "R", "Y", ":">>
      [] c = "KEY_FINDINGS:" ->
             <<"K", "E", "Y", "_", "F", "I", "N", "D", "I", "N", "G", "S", ":">>
      [] c = "SOURCES:" -> <<"S", "O", "U", "R", "C", "E", "S", ":">>
      [] OTHER -> [i \in 1..RunLength(c) |-> RunChar(c)]

\* Characters a symbol stands for.
SymChars(c) == Len(Expand(c))

RECURSIVE Chars(_)
Chars(text) == IF text = <<>> THEN 0 ELSE SymChars(Head(text)) + Chars(Tail(text))

\* text[:n]: the first n characters (a label or a run that straddles character
\* n is cut: its first characters remain).
RECURSIVE Prefix(_, _)
Prefix(text, n) ==
    IF text = <<>> \/ n <= 0 THEN <<>>
    ELSE IF SymChars(Head(text)) > n THEN SubSeq(Expand(Head(text)), 1, n)
    ELSE <<Head(text)>> \o Prefix(Tail(text), n - SymChars(Head(text)))

RECURSIVE LStrip(_)
LStrip(text) ==
    IF text # <<>> /\ IsSpace(Head(text)) THEN LStrip(Tail(text)) ELSE text

RECURSIVE RStrip(_)
RStrip(text) ==
    IF text # <<>> /\ IsSpace(text[Len(text)])
    THEN RStrip(SubSeq(text, 1, Len(text) - 1))
    ELSE text

\* str.strip()
Strip(text) == RStrip(LStrip(text))

\* Python truthiness of an optional text: None and "" are false.
Truthy(text) == text # Null /\ text # <<>>

\* "\n".join(parts)
RECURSIVE JoinNL(_)
JoinNL(parts) ==
    IF parts = <<>> THEN <<>>
    ELSE IF Len(parts) = 1 THEN parts[1]
    ELSE parts[1] \o NL \o JoinNL(Tail(parts))

\* repr() of a list of strings, as the f-string of line 213 embeds it.
RECURSIVE ReprItems(_)
ReprItems(list) ==
    IF list = <<>> THEN <<>>
    ELSE <<"'">> \o list[1] \o <<"'">>
         \o (IF Len(list) > 1 THEN <<",", " ">> ELSE <<>>)
         \o ReprItems(Tail(list))

ReprList(list) == <<"[">> \o ReprItems(list) \o <<"]">>

\* --------------------------------------------------------- TokenTracker
\* Words of the fixed literals of the prompts (lines 266-358) and of the context
\* blocks (lines 205-247); every other symbol is one token.
SymTokens(c) ==
    CASE c = "You are a research planning assistant." -> 6
      [] c = "You are a deep research assistant." -> 6
      [] c = "RESEARCH PLAN:" -> 2
      [] c = "USER QUERY: " -> 2
      [] c = "Create a research plan with: ..." -> 27
      [] c = "Conduct thorough research on this topic. ..." -> 37
      [] c = "You are a research report writer." -> 6
      [] c = "RESEARCH FINDINGS:" -> 2
      [] c = "Write a comprehensive, well-structured research report that: ..." -> 38
      [] c = "Based on this research report, provide:" -> 6
      [] c = "REPORT:" -> 1
      [] c = "1. A 2-3 sentence summary ..." -> 43
      [] c = "=== PREVIOUS RESEARCH CONTEXT ===" -> 5
      [] c = "Previous Query: " -> 2
      [] c = "Previous Summary:" -> 2
      [] c = "Previous Key Findings:" -> 3
      [] c = "Previous Report Excerpt:" -> 3
      [] c = "=== END PREVIOUS CONTEXT ===" -> 5
      [] c = "BUILD UPON this previous research. Do NOT repeat what was already covered." -> 12
      [] c = "=== UPLOADED DOCUMENT CONTEXT ===" -> 5
      [] c = "--- Document: " -> 2
      [] c = "=== END DOCUMENT CONTEXT ===" -> 5
      [] OTHER -> 1

\* len(self.encoder.encode(text))
RECURSIVE count_tokens(_)
count_tokens(text) ==
    IF text = <<>> THEN 0 ELSE SymTokens(Head(text)) + count_tokens(Tail(text))

TokenTracker == [input_tokens |-> 0, output_tokens |-> 0]

\* add_input that assigns the count instead of adding it.
add_inputAssigns(tracker, text) ==
    [tracker EXCEPT !.input_tokens = count_tokens(text)]

add_input(tracker, text) ==
    [tracker EXCEPT !.input_tokens = @ + count_tokens(text)]

add_output(tracker, text) ==
    [tracker EXCEPT !.output_tokens = @ + count_tokens(text)]

\* PRICING['gpt-4o-mini'], dollars per 1M tokens, in thousandths of a dollar.
PricingInput == 150
PricingOutput == 600

\* get_cost() in nano-dollars: (tokens / 1e6) * price.
get_cost(tracker) ==
    tracker.input_tokens * PricingInput + tracker.output_tokens * PricingOutput

\* get_stats() that forgets the output tokens in the total.
get_statsInputOnly(tracker) ==
    [input_tokens |-> tracker.input_tokens,
     output_tokens |-> tracker.output_tokens,
     total_tokens |-> tracker.input_tokens,
     estimated_cost |-> get_cost(tracker),
     model |-> "gpt-4o-mini"]

get_stats(tracker) ==
    [input_tokens |-> tracker.input_tokens,
     output_tokens |-> tracker.output_tokens,
     total_tokens |-> tracker.input_tokens + tracker.output_tokens,
     estimated_cost |-> get_cost(tracker),
     model |-> "gpt-4o-mini"]

\* ------------------------------------------------- _parse_summary_response
\* A search that found nothing; a json.loads that raised JSONDecodeError, and one
\* that raised RecursionError (arrays nested deeper than the interpreter's
\* recursion limit); a json.loads that returned a list.
NoMatch == [found |-> FALSE, span |-> <<>>]
JsonError == [ok |-> FALSE, value |-> <<>>, raised |-> "JSONDecodeError"]
JsonRecursionError == [ok |-> FALSE, value |-> <<>>, raised |-> "RecursionError"]
JsonList(items) == [ok |-> TRUE, value |-> items, raised |-> ""]

\* A JSON number as an item of a decoded list: an int, not a str.
JsonInt(digits) == <<"<int>">> \o digits
IsStr(item) == item = <<>> \/ item[1] # "<int>"

\* Index of the first symbol at or after i that is not whitespace (Len + 1 if none).
RECURSIVE SkipSpace(_, _)
SkipSpace(text, i) ==
    IF i <= Len(text) /\ IsSpace(text[i]) THEN SkipSpace(text, i + 1) ELSE i

\* json.loads of a span "[ ... ]": the symbols between the brackets, read by the
\* array grammar (whitespace, double-quoted strings, integers, commas).  The
\* span holds no "]" before its last symbol, so an inner "[" opens an array that
\* never closes: a decoding error, unless the nesting exceeds the recursion
\* limit first.  A raw newline inside a string is a decoding error.
RECURSIVE JsonItems(_, _, _, _)
JsonItems(rest, state, cur, acc) ==
    IF rest = <<>>
    THEN CASE state \in {"first", "after"} -> JsonList(acc)
           [] state = "number" -> JsonList(Append(acc, JsonInt(cur)))
           [] OTHER -> JsonError
    ELSE LET c == Head(rest)
             t == Tail(rest)
         IN CASE state = "string" ->
                   IF c = "\"" THEN JsonItems(t, "after", <<>>, Append(acc, cur))
                   ELSE IF c = "\n" THEN JsonError
                   ELSE JsonItems(t, "string", Append(cur, c), acc)
              [] state \in {"first", "value"} ->
                   IF IsSpace(c) THEN JsonItems(t, state, cur, acc)
                   ELSE IF c = "\"" THEN JsonItems(t, "string", <<>>, acc)
                   ELSE IF c = "1" THEN JsonItems(t, "number", <<c>>, acc)
                   ELSE IF c = DeepOpen THEN JsonRecursionError
                   ELSE JsonError
              [] state = "number" ->
                   IF c = "1" THEN JsonItems(t, "number", Append(cur, c), acc)
                   ELSE IF IsSpace(c)
                        THEN JsonItems(t, "after", <<>>, Append(acc, JsonInt(cur)))
                   ELSE IF c = ","
                        THEN JsonItems(t, "value", <<>>, Append(acc, JsonInt(cur)))
                   ELSE JsonError
              [] OTHER ->
                   IF IsSpace(c) THEN JsonItems(t, "after", cur, acc)
                   ELSE IF c = "," THEN JsonItems(t, "value", cur, acc)
                   ELSE JsonError

\* The span starts with "[" or with a run of "[" (an array in an array in ...).
json_loads(span) ==
    IF span[1] = DeepOpen THEN JsonRecursionError
    ELSE JsonItems(SubSeq(span, 2, Len(span) - 1), "first", <<>>, <<>>)

\* re.search(r'SUMMARY:\s*(.+?)(?=KEY_FINDINGS:|$)', response, re.DOTALL).group(1)
summary_match(response) ==
    LET n == Len(response)
        starts == {i \in 1..n : response[i] = "SUMMARY:" /\ i < n}
    IN IF starts = {} THEN NoMatch
       ELSE LET i == CHOOSE x \in starts : \A y \in starts : x <= y
                p == SkipSpace(response, i + 1)
            IN IF p > n THEN [found |-> TRUE, span |-> <<response[n]>>]
               ELSE LET ends == {e \in (p + 1)..(n + 1) :
                                    \/ e = n + 1
                                    \/ response[e] = "KEY_FINDINGS:"
                                    \/ e = n /\ response[n] = "\n"}
                        e == CHOOSE x \in ends : \A y \in ends : x <= y
                    IN [found |-> TRUE, span |-> SubSeq(response, p, e - 1)]

\* re.search(label + r'\s*(\[.+?\])', response, re.DOTALL).group(1)
list_match(response, label) ==
    LET n == Len(response)
        Open(i) == SkipSpace(response, i + 1)
        Close(i) == {e \in (Open(i) + (IF response[Open(i)] = DeepOpen THEN 1 ELSE 2))..n :
                        response[e] = "]"}
        starts == {i \in 1..n :
                     /\ response[i] = label
                     /\ Open(i) <= n
                     /\ response[Open(i)] \in {"[", DeepOpen}
                     /\ Close(i) # {}}
    IN IF starts = {} THEN NoMatch
       ELSE LET i == CHOOSE x \in starts : \A y \in starts : x <= y
                e == CHOOSE x \in Close(i) : \A y \in Close(i) : x <= y
            IN [found |-> TRUE, span |-> SubSeq(response, Open(i), e)]

FallbackFindings == << <<"Research completed successfully">> >>
FallbackSources == << <<"AI-synthesized research">> >>

\* A parser whose except block keeps the summary it had extracted.
_parse_summary_responseKeepsSummary(response) ==
    LET sm == summary_match(response)
        fm == list_match(response, "KEY_FINDINGS:")
        sr == list_match(response, "SOURCES:")
        summary == IF sm.found THEN Strip(sm.span) ELSE <<>>
        key_findings == IF fm.found THEN json_loads(fm.span) ELSE JsonList(<<>>)
        sources == IF sr.found THEN json_loads(sr.span) ELSE JsonList(<<>>)
        Fallback == [summary |-> summary,
                     key_findings |-> FallbackFindings,
                     sources |-> FallbackSources,
                     raised |-> ""]
        Raises(e) == [summary |-> <<>>, key_findings |-> <<>>, sources |-> <<>>,
                      raised |-> e]
    IN IF ~key_findings.ok
       THEN IF key_findings.raised = "JSONDecodeError" THEN Fallback
            ELSE Raises(key_findings.raised)
       ELSE IF ~sources.ok
       THEN IF sources.raised = "JSONDecodeError" THEN Fallback
            ELSE Raises(sources.raised)
       ELSE [summary |-> summary,
             key_findings |-> key_findings.value,
             sources |-> sources.value,
             raised |-> ""]

\* raised: "" when the call returns its triple, else the exception that leaves it.
_parse_summary_response(response) ==
    LET sm == summary_match(response)
        fm == list_match(response, "KEY_FINDINGS:")
        sr == list_match(response, "SOURCES:")
        summary == IF sm.found THEN Strip(sm.span) ELSE <<>>
        key_findings == IF fm.found THEN json_loads(fm.span) ELSE JsonList(<<>>)
        sources == IF sr.found THEN json_loads(sr.span) ELSE JsonList(<<>>)
        Fallback == [summary |-> Prefix(response, 500),
                     key_findings |-> FallbackFindings,
                     sources |-> FallbackSources,
                     raised |-> ""]
        Raises(e) == [summary |-> <<>>, key_findings |-> <<>>, sources |-> <<>>,
                      raised |-> e]
    IN IF ~key_findings.ok
       THEN IF key_findings.raised = "JSONDecodeError" THEN Fallback
            ELSE Raises(key_findings.raised)
       ELSE IF ~sources.ok
       THEN IF sources.raised = "JSONDecodeError" THEN Fallback
            ELSE Raises(sources.raised)
       ELSE [summary |-> summary,
             key_findings |-> key_findings.value,
             sources |-> sources.value,
             raised |-> ""]

\* ------------------------------------------------------ context builders
\* parent_obj: the parent's row as the caller loaded it; summary_row: <<row>> when
\* the parent has a ResearchSummary at the time of the call, <<>> when it has none.
_build_parent_context(parent_obj, summary_row) ==
    LET head == << <<"=== PREVIOUS RESEARCH CONTEXT ===">>,
                   <<"Previous Query: ">> \o parent_obj.query >>
        summary == IF summary_row # <<>>
                   THEN << NL \o <<"Previous Summary:">> \o NL
                              \o summary_row[1].summary_text,
                           NL \o <<"Previous Key Findings:">> \o NL
                              \o ReprList(summary_row[1].key_findings) >>
                   ELSE <<>>
        excerpt == IF Truthy(parent_obj.final_report)
                   THEN << NL \o <<"Previous Report Excerpt:">> \o NL
                              \o Prefix(parent_obj.final_report, 2000) >>
                   ELSE <<>>
        tail == << NL \o <<"=== END PREVIOUS CONTEXT ===">> \o NL,
                   <<"BUILD UPON this previous research. Do NOT repeat what was already covered.">> >>
    IN JoinNL(head \o summary \o excerpt \o tail)

\* The parts with each extracted text whole.
RECURSIVE DocPartsWhole(_)
DocPartsWhole(docs) ==
    IF docs = <<>> THEN <<>>
    ELSE LET doc == Head(docs)
         IN << NL \o <<"--- Document: ">> \o doc.filename \o <<" ---">> >>
            \o (IF Truthy(doc.summary) THEN << <<"Summary: ">> \o doc.summary >> ELSE <<>>)
            \o (IF Truthy(doc.extracted_text)
                THEN << <<"Content:">> \o NL \o doc.extracted_text >>
                ELSE <<>>)
            \o DocPartsWhole(Tail(docs))

RECURSIVE DocParts(_)
DocParts(docs) ==
    IF docs = <<>> THEN <<>>
    ELSE LET doc == Head(docs)
         IN << NL \o <<"--- Document: ">> \o doc.filename \o <<" ---">> >>
            \o (IF Truthy(doc.summary) THEN << <<"Summary: ">> \o doc.summary >> ELSE <<>>)
            \o (IF Truthy(doc.extracted_text)
                THEN << <<"Content:">> \o NL \o Prefix(doc.extracted_text, 3000) >>
                ELSE <<>>)
            \o DocParts(Tail(docs))

\* docs: the UploadedDocument rows of the session, UploadedDocument.objects.filter.
_build_document_context(docs) ==
    IF docs = <<>> THEN <<>>
    ELSE JoinNL(<< <<"=== UPLOADED DOCUMENT CONTEXT ===">> >>
                \o DocParts(docs)
                \o << NL \o <<"=== END DOCUMENT CONTEXT ===">> \o NL >>)

\* ------------------------------------------------ _run_research_pipeline
planning_prompt(parent_context, doc_context, query) ==
    <<"You are a research planning assistant.">> \o NL \o NL
    \o parent_context \o NL \o doc_context \o NL \o NL
    \o <<"USER QUERY: ">> \o query \o NL \o NL
    \o <<"Create a research plan with: ...">>

research_prompt(parent_context, doc_context, query_plan, query) ==
    <<"You are a deep research assistant.">> \o NL \o NL
    \o parent_context \o NL \o doc_context \o NL \o NL
    \o <<"RESEARCH PLAN:">> \o NL \o query_plan \o NL \o NL
    \o <<"USER QUERY: ">> \o query \o NL \o NL
    \o <<"Conduct thorough research on this topic. ...">>

report_prompt(research_findings, query) ==
    <<"You are a research report writer.">> \o NL \o NL
    \o <<"RESEARCH FINDINGS:">> \o NL \o research_findings \o NL \o NL
    \o <<"USER QUERY: ">> \o query \o NL \o NL
    \o <<"Write a comprehensive, well-structured research report that: ...">>

summary_prompt(final_report) ==
    <<"Based on this research report, provide:">> \o NL \o NL
    \o <<"REPORT:">> \o NL \o final_report \o NL \o NL
    \o <<"1. A 2-3 sentence summary ...">>

Stages == <<"plan", "research", "report", "summarize">>

\* Prompts in which only the planning prompt carries the contexts.
StagePromptNoContext(k, t) ==
    CASE k = 1 -> planning_prompt(t.parent_context, t.doc_context, t.query)
      [] k = 2 -> research_prompt(<<>>, <<>>, t.query_plan, t.query)
      [] k = 3 -> report_prompt(t.research_findings, t.query)
      [] OTHER -> summary_prompt(t.final_report)

\* The prompt of stage k, from the locals of the run t.
StagePrompt(k, t) ==
    CASE k = 1 -> planning_prompt(t.parent_context, t.doc_context, t.query)
      [] k = 2 -> research_prompt(t.parent_context, t.doc_context, t.query_plan, t.query)
      [] k = 3 -> report_prompt(t.research_findings, t.query)
      [] OTHER -> summary_prompt(t.final_report)

\* The locals after stage k returned `content`, the response kept but not counted.
StageReturnUncounted(k, t, content) ==
    CASE k = 1 -> [t EXCEPT !.query_plan = content]
      [] k = 2 -> [t EXCEPT !.research_findings = content]
      [] k = 3 -> [t EXCEPT !.final_report = content]
      [] OTHER -> [t EXCEPT !.summary_text = content]

\* The locals after stage k returned `content`: the response is kept and counted.
StageReturn(k, t, content) ==
    LET kept == CASE k = 1 -> [t EXCEPT !.query_plan = content]
                  [] k = 2 -> [t EXCEPT !.research_findings = content]
                  [] k = 3 -> [t EXCEPT !.final_report = content]
                  [] OTHER -> [t EXCEPT !.summary_text = content]
    IN [kept EXCEPT !.tracker = add_output(@, content)]

\* A pipeline that skips every other stage.
NextStageSkips(k) == IF k < 3 THEN k + 2 ELSE 0

\* The stage invoked after stage k returned (0: none, the pipeline returns).
NextStage(k) == IF k < 4 THEN k + 1 ELSE 0

\* A result whose report is the findings of stage 2.
PipelineResultFindings(t) ==
    [report |-> t.research_findings,
     summary |-> _parse_summary_response(t.summary_text).summary,
     key_findings |-> _parse_summary_response(t.summary_text).key_findings,
     sources |-> _parse_summary_response(t.summary_text).sources,
     reasoning |-> [query_plan |-> t.query_plan]]

\* The result dict of lines 373-390.
PipelineResult(t) ==
    LET parsed == _parse_summary_response(t.summary_text)
    IN [report |-> t.final_report,
        summary |-> parsed.summary,
        key_findings |-> parsed.key_findings,
        sources |-> parsed.sources,
        reasoning |-> [query_plan |-> t.query_plan,
                       search_strategy |-> "Multi-step LLM-based research with context building",
                       source_selection |-> "AI knowledge synthesis with document context",
                       synthesis_approach |->
                           "Iterative refinement with planning, research, and report generation",
                       steps |-> <<"Query planning and decomposition",
                                   "Deep research with context",
                                   "Report generation",
                                   "Summary extraction">>]]

\* ----------------------------------------------------------- rows
\* models.py defaults of a new ResearchSession.
NewSession(query, parent) ==
    [query |-> query, final_report |-> Null, status |-> "pending",
     parent_session |-> parent, trace_id |-> "None", completed_at |-> "None"]

\* models.py defaults of a new ResearchCost.
NewCost ==
    [input_tokens |-> 0, output_tokens |-> 0, total_tokens |-> 0,
     estimated_cost |-> 0, model_used |-> "gpt-4o-mini"]

\* DecimalField(max_digits=10, decimal_places=6): nano-dollars stored as
\* micro-dollars, rounded half to even.
DecimalMicros(nano) ==
    LET q == nano \div 1000
        r == nano % 1000
    IN IF r > 500 \/ (r = 500 /\ q % 2 = 1) THEN q + 1 ELSE q

\* Locals whose tracker is not fresh: the run starts from the counts of the run
\* dispatched before it.
NewThreadSharedTracker(session_obj, parent, parent_obj) ==
    [pc |-> "dispatched", query |-> session_obj.query,
     parent |-> parent, parent_obj |-> parent_obj,
     tracker |-> IF DOMAIN threads = {} THEN TokenTracker
                 ELSE threads[Cardinality(DOMAIN threads)].tracker,
     parent_context |-> <<>>, doc_context |-> <<>>,
     query_plan |-> <<>>, research_findings |-> <<>>, final_report |-> <<>>,
     summary_text |-> <<>>, result |-> <<>>, stage |-> 0, calls |-> <<>>,
     log |-> <<>>, failure |-> "none"]

\* The locals of one _execute_research call.  pc: where the thread is; result:
\* <<the dict the pipeline returned>>, <<>> before it returns.  calls: the
\* llm.invoke calls and how they ended; log: the same with the tracker calls
\* between them, in program order (stage 0: the contexts of lines 145 and 149),
\* each tracker call with the tokens it added to its counter.
NewThread(session_obj, parent, parent_obj) ==
    [pc |-> "dispatched", query |-> session_obj.query,
     parent |-> parent, parent_obj |-> parent_obj,
     tracker |-> TokenTracker, parent_context |-> <<>>, doc_context |-> <<>>,
     query_plan |-> <<>>, research_findings |-> <<>>, final_report |-> <<>>,
     summary_text |-> <<>>, result |-> <<>>, stage |-> 0, calls |-> <<>>,
     log |-> <<>>, failure |-> "none"]

Created == DOMAIN sessions
NextId == Cardinality(Created) + 1

DocsOf(s) == SelectSeq(documents, LAMBDA d : d.session = s)

\* -------------------------------------------------------- request inputs
LongQuery == <<"W", "h", "a", "t", " ", "i", "s", " ", "X", "?">>

\* request.data.get('query'): missing, empty, blank, short, valid with padding.
QueryInputs == {Null, <<>>, <<" ", " ">>, <<"X", "?">>, <<" ">> \o LongQuery}

\* CharField(required=True, min_length=10, max_length=5000) with the default
\* trim_whitespace, then validate_query.
SerializerQueryValid(q) ==
    /\ q # Null
    /\ Strip(q) # <<>>
    /\ Chars(Strip(q)) >= 10
    /\ Chars(Strip(q)) <= 5000

\* ContinueResearchSerializer.validate_previous_research_id
validate_previous_research_id(value) ==
    value \in Created /\ sessions[value].status = "completed"

\* ------------------------------------------------------ ResearchService
\* ResearchService.start_research / continue_research: the thread is started and
\* the call returns.
start_research(s, session_obj) == (s :> NewThread(session_obj, 0, NewSession(<<>>, 0)))

continue_research(s, session_obj, p, parent_obj) == (s :> NewThread(session_obj, p, parent_obj))

\* StartResearchView: validate, create the session and its cost row, dispatch.
StartResearchView ==
    \E q \in QueryInputs :
        IF SerializerQueryValid(q) /\ NextId \in SessionIds
        THEN LET s == NextId
                 session_obj == NewSession(Strip(q), 0)
             IN /\ sessions' = sessions @@ (s :> session_obj)
                /\ costs' = costs @@ (s :> NewCost)
                /\ threads' = threads @@ start_research(s, session_obj)
                /\ UNCHANGED <<summaries, reasonings, documents, vvars>>
        ELSE /\ ~SerializerQueryValid(q)
             /\ UNCHANGED vars

\* ContinueResearchView: validate the parent and the query, create the child.
ContinueResearchView ==
    \E q \in QueryInputs, p \in SessionIds :
        IF SerializerQueryValid(q) /\ validate_previous_research_id(p)
           /\ NextId \in SessionIds
        THEN LET s == NextId
                 session_obj == NewSession(Strip(q), p)
             IN /\ sessions' = sessions @@ (s :> session_obj)
                /\ costs' = costs @@ (s :> NewCost)
                /\ threads' = threads @@ continue_research(s, session_obj, p, sessions[p])
                /\ UNCHANGED <<summaries, reasonings, documents, vvars>>
        ELSE /\ ~(SerializerQueryValid(q) /\ validate_previous_research_id(p))
             /\ UNCHANGED vars

\* ------------------------------------------------------ LLM collaborator
WellFormedSummary ==
    <<"SUMMARY:", " ", "S", "\n", "KEY_FINDINGS:", " ", "[", "\"", "k", "\"", "]", "\n",
      "SOURCES:", " ", "[", "\"", "u", "\"", "]">>

MalformedSummary == <<"SUMMARY:", " ", "S", "\n", "KEY_FINDINGS:", " ", "[", "k", "]">>

\* A summary whose key findings are arrays nested beyond the recursion limit.
DeepSummary == <<"KEY_FINDINGS:", " ", DeepOpen, "]">>

\* What llm.invoke can return at stage k.
Replies(k) ==
    CASE k = 1 -> {<<"P", "l", "a", "n">>}
      [] k = 2 -> {<<"F", "i", "n", "d">>}
      [] k = 3 -> {<<"R", "e", "p">>}
      [] OTHER -> {WellFormedSummary, MalformedSummary, DeepSummary}

\* str(e) of what llm.invoke, the ChatOpenAI constructor or the ORM can raise.
UpstreamError == <<"upstream error">>
SetupError == <<"setup error">>
DatabaseError == <<"database error">>

Call(ev, k, text) == [ev |-> ev, stage |-> k, text |-> text]

Logged(ev, k, tokens) == [ev |-> ev, stage |-> k, tokens |-> tokens]

\* ----------------------------------------------------- _execute_research
\* The except block without the status write.
ExceptHandlerKeepsStatus(row, e) ==
    [row EXCEPT !.final_report = <<"Research failed: ">> \o e]

\* Lines 195-198: the except block, on the session object the thread holds.
ExceptHandler(row, e) ==
    [row EXCEPT !.status = "failed", !.final_report = <<"Research failed: ">> \o e]

\* Lines 124-127.
MarkRunning(row) == [row EXCEPT !.trace_id = "uuid4", !.status = "running"]

\* Lines 161-165 without the status write.
MarkCompletedKeepsStatus(row, result) ==
    [row EXCEPT !.final_report = result.report, !.completed_at = "now"]

\* Lines 161-165.
MarkCompleted(row, result) ==
    [row EXCEPT !.final_report = result.report, !.status = "completed",
                !.completed_at = "now"]

\* Lines 185-193.
CostUpdate(row, stats) ==
    [row EXCEPT !.input_tokens = stats.input_tokens,
                !.output_tokens = stats.output_tokens,
                !.total_tokens = stats.total_tokens,
                !.estimated_cost = DecimalMicros(stats.estimated_cost),
                !.model_used = stats.model]

Raise(s, kind, e) ==
    /\ sessions' = [sessions EXCEPT ![s] = ExceptHandler(@, e)]
    /\ threads' = [threads EXCEPT ![s].pc = "raised", ![s].failure = kind]

\* The thread starts: lines 120-127.
BeginExecute(s) ==
    /\ threads[s].pc = "dispatched"
    /\ sessions' = [sessions EXCEPT ![s] = MarkRunning(@)]
    /\ threads' = [threads EXCEPT ![s].pc = "setup"]
    /\ UNCHANGED <<summaries, reasonings, costs, documents, vvars>>

\* Lines 130-139 raise (settings, the ChatOpenAI constructor).
SetupFails(s) ==
    /\ threads[s].pc = "setup"
    /\ Raise(s, "setup", SetupError)
    /\ UNCHANGED <<summaries, reasonings, costs, documents, vvars>>

\* Lines 141-149 and 266-282: the contexts are built and counted, the planning
\* prompt is counted and stage 1 is invoked.
RunPipeline(s) ==
    /\ threads[s].pc = "setup"
    /\ \E parent_context \in
              {IF threads[s].parent # 0
               THEN _build_parent_context(threads[s].parent_obj,
                        IF threads[s].parent \in DOMAIN summaries
                        THEN <<summaries[threads[s].parent]>> ELSE <<>>)
               ELSE <<>>},
          doc_context \in {_build_document_context(DocsOf(s))} :
        \E tp \in {IF threads[s].parent # 0
                    THEN add_input(threads[s].tracker, parent_context)
                    ELSE threads[s].tracker} :
          \E td \in {add_input(tp, doc_context)} :
            \E t1 \in {[threads[s] EXCEPT
                           !.parent_context = parent_context,
                           !.doc_context = doc_context,
                           !.tracker = td,
                           !.log = (IF threads[s].parent # 0
                                    THEN Append(@, Logged("add_input", 0,
                                             tp.input_tokens - threads[s].tracker.input_tokens))
                                    ELSE @)
                                   \o <<Logged("add_input", 0,
                                               td.input_tokens - tp.input_tokens)>>]} :
              \E t2 \in {add_input(td, StagePrompt(1, t1))} :
                threads' = [threads EXCEPT ![s] =
                    [t1 EXCEPT !.tracker = t2,
                               !.pc = "llm", !.stage = 1,
                               !.calls = Append(@, Call("invoke", 1, <<>>)),
                               !.log = @ \o <<Logged("add_input", 1,
                                                     t2.input_tokens - td.input_tokens),
                                              Logged("invoke", 1, 0)>>]]
    /\ UNCHANGED <<sessions, summaries, reasonings, costs, documents, vvars>>

\* llm.invoke of the current stage returns: the response is counted; the next
\* stage is invoked, or after stage 4 the summary is parsed, the result is built
\* and lines 161-165 save the session.  A parser that raises leaves the pipeline
\* for the except block.
LlmReturns(s) ==
    /\ threads[s].pc = "llm"
    /\ \E content \in Replies(threads[s].stage), k \in {threads[s].stage} :
        \E t0 \in {StageReturn(k,
                      [threads[s] EXCEPT !.calls = Append(@, Call("return", k, content))],
                      content)} :
         \E t1 \in {[t0 EXCEPT !.log = @ \o
                        <<Logged("return", k, 0),
                          Logged("add_output", k, t0.tracker.output_tokens
                                                  - threads[s].tracker.output_tokens)>>]} :
           IF NextStage(k) # 0
           THEN /\ \E t2 \in {add_input(t1.tracker, StagePrompt(NextStage(k), t1))} :
                      threads' = [threads EXCEPT ![s] =
                          [t1 EXCEPT !.tracker = t2,
                                     !.stage = NextStage(k),
                                     !.calls = Append(@, Call("invoke", NextStage(k), <<>>)),
                                     !.log = @ \o
                                         <<Logged("add_input", NextStage(k),
                                                  t2.input_tokens - t1.tracker.input_tokens),
                                           Logged("invoke", NextStage(k), 0)>>]]
                /\ UNCHANGED sessions
           ELSE \E result \in {PipelineResult(t1)},
                   parsed \in {_parse_summary_response(t1.summary_text)} :
                   IF parsed.raised # ""
                   THEN /\ threads' = [threads EXCEPT ![s] =
                               [t1 EXCEPT !.pc = "raised", !.failure = "parse"]]
                        /\ sessions' = [sessions EXCEPT ![s] =
                               ExceptHandler(@, <<parsed.raised>>)]
                   ELSE /\ threads' = [threads EXCEPT ![s] =
                               [t1 EXCEPT !.pc = "save_summary", !.result = <<result>>]]
                        /\ sessions' = [sessions EXCEPT ![s] = MarkCompleted(@, result)]
    /\ UNCHANGED <<summaries, reasonings, costs, documents, vvars>>

\* llm.invoke of the current stage raises: the exception leaves the pipeline and
\* reaches the except block.
LlmFails(s) ==
    /\ threads[s].pc = "llm"
    /\ sessions' = [sessions EXCEPT ![s] = ExceptHandler(@, UpstreamError)]
    /\ threads' = [threads EXCEPT ![s].pc = "raised", ![s].failure = "llm",
                       ![s].calls = Append(@, Call("error", threads[s].stage, <<>>)),
                       ![s].log = Append(@, Logged("error", threads[s].stage, 0))]
    /\ UNCHANGED <<summaries, reasonings, costs, documents, vvars>>

\* Lines 167-173.
CreateSummary(s) ==
    /\ threads[s].pc = "save_summary"
    /\ LET result == threads[s].result[1]
       IN summaries' = summaries @@
              (s :> [summary_text |-> result.summary,
                     key_findings |-> result.key_findings,
                     sources |-> result.sources])
    /\ threads' = [threads EXCEPT ![s].pc = "save_reasoning"]
    /\ UNCHANGED <<sessions, reasonings, costs, documents, vvars>>

\* Lines 175-183.
CreateReasoning(s) ==
    /\ threads[s].pc = "save_reasoning"
    /\ reasonings' = reasonings @@ (s :> threads[s].result[1].reasoning)
    /\ threads' = [threads EXCEPT ![s].pc = "save_cost"]
    /\ UNCHANGED <<sessions, summaries, costs, documents, vvars>>

\* Lines 185-193.
UpdateCost(s) ==
    /\ threads[s].pc = "save_cost"
    /\ costs' = [costs EXCEPT ![s] = CostUpdate(@, get_stats(threads[s].tracker))]
    /\ threads' = [threads EXCEPT ![s].pc = "done"]
    /\ UNCHANGED <<sessions, summaries, reasonings, documents, vvars>>

\* One of the writes of lines 167-193 raises (the row cannot be created, the cost
\* row cannot be read or saved): the except block runs on the completed session.
PersistFails(s) ==
    /\ threads[s].pc \in {"save_summary", "save_reasoning", "save_cost"}
    /\ Raise(s, "persist", DatabaseError)
    /\ UNCHANGED <<summaries, reasonings, costs, documents, vvars>>

ThreadStep(s) ==
    /\ s \in DOMAIN threads
    /\ \/ BeginExecute(s)
       \/ SetupFails(s)
       \/ RunPipeline(s)
       \/ LlmReturns(s)
       \/ LlmFails(s)
       \/ CreateSummary(s)
       \/ CreateReasoning(s)
       \/ UpdateCost(s)
       \/ PersistFails(s)

\* ============================================= views.py, langgraph_client.py
\* Words of the fixed literals of views.py and langgraph_client.py, as str.split
\* counts them.
SymWords(c) ==
    CASE c = "PREVIOUS RESEARCH CONTEXT:" -> 3
      [] c = "NEW RESEARCH QUERY:" -> 3
      [] c = "Please build upon the previous research ..." -> 12
      [] c = "PREVIOUS QUERY: " -> 2
      [] c = "PREVIOUS FINDINGS:" -> 2
      [] c = "No previous findings" -> 3
      [] c = "SOURCES USED:" -> 2
      [] c = "Research completed." -> 2
      [] OTHER -> 1

IsLiteral(c) == SymWords(c) > 1

\* len(text.split()): the words of the literals, and one word for every maximal
\* run of characters that are not whitespace.
WordCount(text) ==
    LET f[i \in 0..Len(text)] ==
            IF i = 0 THEN 0
            ELSE f[i - 1] +
                 (IF IsSpace(text[i]) THEN 0
                  ELSE IF IsLiteral(text[i]) THEN SymWords(text[i])
                  ELSE IF i = 1 \/ IsSpace(text[i - 1]) \/ IsLiteral(text[i - 1])
                       THEN 1 ELSE 0)
    IN f[Len(text)]

\* report.split('\n\n') from position start on.
RECURSIVE SplitParagraphs(_, _)
SplitParagraphs(text, start) ==
    LET n == Len(text)
        seps == {i \in start..(n - 1) : text[i] = "\n" /\ text[i + 1] = "\n"}
    IN IF seps = {} THEN << SubSeq(text, start, n) >>
       ELSE LET i == CHOOSE x \in seps : \A y \in seps : x <= y
            IN << SubSeq(text, start, i - 1) >> \o SplitParagraphs(text, i + 2)

\* The loop of lines 122-126 from paragraph i on.
RECURSIVE TakeParagraphs(_, _, _, _)
TakeParagraphs(paragraphs, i, summary, max_length) ==
    IF i > Min(3, Len(paragraphs)) THEN summary
    ELSE IF Chars(summary) + Chars(paragraphs[i]) < max_length
         THEN TakeParagraphs(paragraphs, i + 1, summary \o paragraphs[i] \o NL \o NL,
                             max_length)
         ELSE summary

\* OpenDeepResearchClient._generate_summary(report, max_length)
_generate_summary(report, max_length) ==
    IF ~Truthy(report) THEN <<>>
    ELSE LET summary == Strip(TakeParagraphs(SplitParagraphs(report, 1), 1, <<>>, max_length))
         IN IF summary # <<>> THEN summary
            ELSE Prefix(report, max_length) \o <<".", ".", ".">>

\* _estimate_cost in ten-thousandths of a dollar: round(x, 4) of the float
\* in/1000*0.03 + out/1000*0.06.  An exact tie goes where the binary float lies,
\* either way.
_estimate_cost(input_tokens, output_tokens) ==
    LET x == 3 * input_tokens + 6 * output_tokens
        q == x \div 10
        r == x % 10
    IN IF r < 5 THEN {q} ELSE IF r > 5 THEN {q + 1} ELSE {q, q + 1}

\* The prompt of lines 36-45.
full_query(query, previous_context) ==
    IF Truthy(previous_context)
    THEN <<"PREVIOUS RESEARCH CONTEXT:">> \o NL \o previous_context \o NL \o NL
         \o <<"NEW RESEARCH QUERY:">> \o NL \o query \o NL \o NL
         \o <<"Please build upon the previous research ...">>
    ELSE query

\* int(len(text.split()) * 1.3)
EstimateTokens(text) == (13 * WordCount(text)) \div 10

\* The dict of lines 87-101, for the final_report read from the thread state;
\* cost: one of _estimate_cost.
SuccessResult(query, previous_context, thread_id, final_report, cost) ==
    LET input_tokens == EstimateTokens(full_query(query, previous_context))
        output_tokens == IF Truthy(final_report) THEN EstimateTokens(final_report) ELSE 0
    IN [success |-> TRUE,
        error |-> Null,
        report |-> IF Truthy(final_report) THEN final_report
                   ELSE <<"Research completed.">>,
        summary |-> IF Truthy(final_report) THEN _generate_summary(final_report, 500)
                    ELSE <<>>,
        sources |-> <<>>,
        reasoning |-> <<>>,
        thread_id |-> thread_id,
        input_tokens |-> input_tokens,
        output_tokens |-> output_tokens,
        total_tokens |-> input_tokens + output_tokens,
        estimated_cost |-> cost]

\* The dict of lines 104-115.
FailureResult(thread_id, e) ==
    [success |-> FALSE, error |-> e, report |-> <<>>, summary |-> <<>>,
     sources |-> <<>>, reasoning |-> <<>>, thread_id |-> thread_id,
     input_tokens |-> 0, output_tokens |-> 0, total_tokens |-> 0,
     estimated_cost |-> 0]

\* What the last message of the thread state can hold.
ClientReports == {<<>>, <<"R", "e", "p">>}

\* The row of ResearchSession.objects.create in views.py (lines 52-57, 144-149);
\* the fields the call does not name hold None.
VNewSession(user_id, query, parent) ==
    [user_id |-> user_id, query |-> query, status |-> "processing",
     parent_research |-> parent, report |-> Null, summary |-> Null,
     sources |-> <<>>, reasoning |-> <<>>, thread_id |-> 0,
     input_tokens |-> 0, output_tokens |-> 0, total_tokens |-> 0,
     estimated_cost |-> 0, error_message |-> Null, completed_at |-> "None"]

\* Lines 43 and 137: (summary or report[:n]) if report else 'No previous findings'.
PreviousFindings(parent, n) ==
    IF Truthy(parent.report)
    THEN IF Truthy(parent.summary) THEN parent.summary ELSE Prefix(parent.report, n)
    ELSE <<"No previous findings">>

\* Lines 39-44.
StartPreviousContext(parent) ==
    NL \o <<"PREVIOUS QUERY: ">> \o parent.query \o NL \o NL
    \o <<"PREVIOUS FINDINGS:">> \o NL \o PreviousFindings(parent, 2000) \o NL

\* Lines 133-141.
ContinuePreviousContext(parent) ==
    NL \o <<"PREVIOUS QUERY: ">> \o parent.query \o NL \o NL
    \o <<"PREVIOUS FINDINGS:">> \o NL \o PreviousFindings(parent, 3000) \o NL \o NL
    \o <<"SOURCES USED:">> \o NL
    \o (IF parent.sources # <<>> THEN ReprList(parent.sources) ELSE <<"None">>) \o NL

VCreated == DOMAIN vsessions
VNextId == Cardinality(VCreated) + 1

NoResponse == [code |-> 0, research_id |-> 0, status |-> "", error |-> Null]
Response(code, research_id, status, error) ==
    [code |-> code, research_id |-> research_id, status |-> status, error |-> error]

\* Python truthiness of request.data.get('query').
QueryGiven(q) == Truthy(q)

\* views.start_research up to the call of run_research: lines 22-64.
v_start_research ==
    \E q \in QueryInputs, parent_research_id \in 0..(MaxSessions + 1) :
        IF ~QueryGiven(q)
        THEN /\ http_response' = Response(400, 0, "", <<"Query is required">>)
             /\ UNCHANGED <<svars, vsessions, inflight>>
        ELSE IF parent_research_id # 0 /\ parent_research_id \notin VCreated
        THEN /\ http_response' = Response(404, 0, "", <<"Parent research session not found">>)
             /\ UNCHANGED <<svars, vsessions, inflight>>
        ELSE /\ VNextId \in SessionIds
             /\ LET s == VNextId
                    previous_context ==
                        IF parent_research_id # 0
                        THEN StartPreviousContext(vsessions[parent_research_id])
                        ELSE Null
                IN /\ vsessions' = vsessions @@
                          (s :> VNewSession("anonymous", q, parent_research_id))
                   /\ inflight' = inflight @@
                          (s :> [handler |-> "start_research", query |-> q,
                                 previous_context |-> previous_context, thread_id |-> 0])
             /\ UNCHANGED <<svars, http_response>>

\* views.continue_research up to the call of run_research: lines 122-156.
v_continue_research ==
    \E q \in QueryInputs, research_id \in 1..(MaxSessions + 1) :
        IF ~QueryGiven(q)
        THEN /\ http_response' = Response(400, 0, "", <<"Query is required">>)
             /\ UNCHANGED <<svars, vsessions, inflight>>
        ELSE IF research_id \notin VCreated
        THEN /\ http_response' = Response(404, 0, "", <<"Not found">>)
             /\ UNCHANGED <<svars, vsessions, inflight>>
        ELSE /\ VNextId \in SessionIds
             /\ LET s == VNextId
                    parent_session == vsessions[research_id]
                IN /\ vsessions' = vsessions @@
                          (s :> VNewSession(parent_session.user_id, q, research_id))
                   /\ inflight' = inflight @@
                          (s :> [handler |-> "continue_research", query |-> q,
                                 previous_context |-> ContinuePreviousContext(parent_session),
                                 thread_id |-> parent_session.thread_id])
             /\ UNCHANGED <<svars, http_response>>

\* Lines 66-79 and 158-170: the session is written from a success result.
SaveSuccess(row, result) ==
    [row EXCEPT !.status = "completed", !.report = result.report,
                !.summary = result.summary, !.sources = result.sources,
                !.reasoning = result.reasoning, !.thread_id = result.thread_id,
                !.input_tokens = result.input_tokens,
                !.output_tokens = result.output_tokens,
                !.total_tokens = result.total_tokens,
                !.estimated_cost = result.estimated_cost,
                !.completed_at = "now"]

\* A failure branch that stores the error and leaves the status.
SaveFailureKeepsStatus(row, error) ==
    [row EXCEPT !.error_message = error]

\* Lines 93-96, 104-107, 184-187, 193-196.
SaveFailure(row, error) ==
    [row EXCEPT !.status = "failed", !.error_message = error]

\* The id of the thread self.client.threads.create() makes for the run of s.
NewThreadId(s) == s

Finish(s, row, resp) ==
    /\ vsessions' = [vsessions EXCEPT ![s] = row]
    /\ inflight' = [x \in DOMAIN inflight \ {s} |-> inflight[x]]
    /\ http_response' = resp
    /\ UNCHANGED svars

\* run_research returns a success result and the handler saves it and answers.
v_run_research_succeeds(s) ==
    /\ s \in DOMAIN inflight
    /\ \E final_report \in ClientReports,
          thread_id \in {IF inflight[s].thread_id # 0 THEN inflight[s].thread_id
                         ELSE NewThreadId(s)} :
        \E input_tokens \in
               {EstimateTokens(full_query(inflight[s].query, inflight[s].previous_context))},
           output_tokens \in
               {IF Truthy(final_report) THEN EstimateTokens(final_report) ELSE 0} :
            \E cost \in _estimate_cost(input_tokens, output_tokens) :
                Finish(s,
                       SaveSuccess(vsessions[s],
                           SuccessResult(inflight[s].query, inflight[s].previous_context,
                                         thread_id, final_report, cost)),
                       Response(201, s, "completed", Null))

\* runs.wait or threads.get_state raises inside run_research: a failure result.
v_run_research_fails(s) ==
    /\ s \in DOMAIN inflight
    /\ LET thread_id == IF inflight[s].thread_id # 0 THEN inflight[s].thread_id
                        ELSE NewThreadId(s)
           result == FailureResult(thread_id, UpstreamError)
       IN Finish(s, SaveFailure(vsessions[s], result.error),
                 Response(500, IF inflight[s].handler = "start_research" THEN s ELSE 0,
                          IF inflight[s].handler = "start_research" THEN "failed" ELSE "",
                          result.error))

\* threads.create() raises, before the try of run_research: the handler's except.
v_run_research_raises(s) ==
    /\ s \in DOMAIN inflight
    /\ inflight[s].thread_id = 0
    /\ Finish(s, SaveFailure(vsessions[s], UpstreamError),
              Response(500, IF inflight[s].handler = "start_research" THEN s ELSE 0,
                       IF inflight[s].handler = "start_research" THEN "failed" ELSE "",
                       UpstreamError))

\* views.get_research_detail: what a reader is answered.
get_research_detail ==
    \E research_id \in 1..(MaxSessions + 1) :
        /\ http_response' =
               IF research_id \in VCreated
               THEN Response(200, research_id, vsessions[research_id].status, Null)
               ELSE Response(404, 0, "", <<"Not found">>)
        /\ UNCHANGED <<svars, vsessions, inflight>>

VNext ==
    \/ v_start_research
    \/ v_continue_research
    \/ \E s \in SessionIds : v_run_research_succeeds(s)
    \/ \E s \in SessionIds : v_run_research_fails(s)
    \/ \E s \in SessionIds : v_run_research_raises(s)
    \/ get_research_detail

\* ------------------------------------------------------------ the system
\* No row, no thread, no request.
Empty ==
    /\ sessions = <<>>
    /\ summaries = <<>>
    /\ reasonings = <<>>
    /\ costs = <<>>
    /\ documents = <<>>
    /\ threads = <<>>
    /\ vsessions = <<>>
    /\ inflight = <<>>
    /\ http_response = NoResponse

Init == Empty /\ unit = <<>>

Next ==
    \/ StartResearchView
    \/ ContinueResearchView
    \/ \E s \in SessionIds : ThreadStep(s)

Spec == Init /\ [][Next]_vars

SpecViews == Init /\ [][VNext]_vars

\* Every started thread keeps running: the scheduler serves it, and each LLM
\* invocation and each database write it waits for returns or raises.
FairSpec == Spec /\ \A s \in SessionIds : WF_vars(ThreadStep(s))

\* ============================================================ the summary parser
\* json.dumps of a str that needs no escape, and of a list of them (separators as
\* in the template of the summary prompt).
JsonString(x) == <<"\"">> \o x \o <<"\"">>

RECURSIVE JsonArrayItems(_)
JsonArrayItems(list) ==
    IF list = <<>> THEN <<>>
    ELSE JsonString(Head(list))
         \o (IF Len(list) > 1 THEN <<",">> ELSE <<>>)
         \o JsonArrayItems(Tail(list))

JsonArray(list) == <<"[">> \o JsonArrayItems(list) \o <<"]">>

\* The response the summary prompt asks for (lines 351-358).
Template(summary, findings, sources) ==
    <<"SUMMARY:", " ">> \o summary \o NL
    \o <<"KEY_FINDINGS:", " ">> \o JsonArray(findings) \o NL
    \o <<"SOURCES:", " ">> \o JsonArray(sources)

TemplateSummaries == {<<"F", "o", "o", " ", "b", "a", "r", ".">>, <<" ", "F", "o", " ">>}
TemplateFindings ==
    {<<>>, << <<"a">> >>, << <<"a">>, <<"b">> >>, << <<"a", "]", "b">> >>,
     << <<"a", "[", "b">> >>}
TemplateSources == {<<>>, << <<"s", "1">> >>, << <<"[", "1", "]">> >>}

NoLabelsHere == <<"n", "o", " ", "l", "a", "b", "e", "l", "s", " ", "h", "e", "r", "e">>

\* Sections a response can hold in place of the template's.
SummarySections ==
    {<<>>, <<"SUMMARY:">>, <<"SUMMARY:", " ", "s", "\n">>, <<"SUMMARY:", " ", Block, "\n">>,
     NoLabelsHere \o NL}
ListBodies ==
    {<<"[", "]">>, <<"[", " ", "]">>, <<"[", "\"", "a", "\"", "]">>,
     <<"[", "1", "]">>, <<"[", "1", "1", ",", " ", "\"", "a", "\"", "]">>,
     <<"[", "1", " ", "1", "]">>, <<"[", "x", "]">>, <<"[", "\"", "a">>,
     <<"[", "\"", "a", "\"", ",", "]">>, <<"[", "[", "\"", "a", "\"", "]", "]">>,
     <<DeepOpen, "]">>, <<"[", "\"", "a", "\"", ",", DeepOpen, "]">>, <<Block>>}
ListSections(label) == {<<>>} \cup {<<label, " ">> \o b \o NL : b \in ListBodies}

\* The responses parsed: the template's, and free text.
ParserInputs ==
    {[response |-> Template(sm, f, sr), template |-> TRUE,
      summary |-> sm, findings |-> f, sources |-> sr, parsed |-> <<>>] :
        sm \in TemplateSummaries, f \in TemplateFindings, sr \in TemplateSources}
    \cup
    {[response |-> a \o b \o c, template |-> FALSE,
      summary |-> <<>>, findings |-> <<>>, sources |-> <<>>, parsed |-> <<>>] :
        a \in SummarySections, b \in ListSections("KEY_FINDINGS:"),
        c \in ListSections("SOURCES:")}

InitParser == Empty /\ unit \in ParserInputs

\* summary, key_findings, sources = _parse_summary_response(summary_text)
Parse ==
    /\ unit.parsed = <<>>
    /\ unit' = [unit EXCEPT !.parsed = << _parse_summary_response(unit.response) >>]
    /\ UNCHANGED mvars

NextParser == Parse

SpecParser == InitParser /\ [][NextParser]_vars

\* ============================================================ the parent context
\* n blocks of 500 "X".
Blocks(n) == [i \in 1..n |-> Block]

\* A parent row is any row the schema admits: report and summary are nullable.
\* A report: none, empty, 3, 2000, 2001, 2500, 3000, 3001 and 5000 characters.
ParentReports ==
    {Null, <<>>, <<"X", "X", "X">>, Blocks(4), Blocks(4) \o <<"X">>, Blocks(5),
     Blocks(6), Blocks(6) \o <<"X">>, Blocks(10)}
ParentSummaries == {Null, <<"S", "u", "m">>}
ParentQueries == {<<"Q", "?">>, <<"W", "h", "y", "?">>}

\* The parent as ResearchService sees it: the row, and its ResearchSummary row.
ServiceParent(parent) ==
    [NewSession(parent.query, 0) EXCEPT !.final_report = parent.report]

ServiceSummary(parent) ==
    IF parent.summary = Null THEN <<>>
    ELSE << [summary_text |-> parent.summary,
             key_findings |-> << <<"k">> >>,
             sources |-> << <<"s">> >>] >>

\* The parent as views.py sees it.
ViewParent(parent) ==
    [VNewSession("anonymous", parent.query, 0) EXCEPT
        !.report = parent.report, !.summary = parent.summary]

InitContext ==
    /\ Empty
    /\ unit \in {[parent |-> [query |-> q, report |-> r, summary |-> sm], built |-> <<>>] :
                    q \in ParentQueries, r \in ParentReports, sm \in ParentSummaries}

Built(path, context) == [unit EXCEPT !.built = << [path |-> path, context |-> context] >>]

\* ResearchService._build_parent_context(parent_session)
BuildParentContext ==
    /\ unit.built = <<>>
    /\ unit' = Built("_build_parent_context",
                     _build_parent_context(ServiceParent(unit.parent),
                                           ServiceSummary(unit.parent)))
    /\ UNCHANGED mvars

\* views.start_research with parent_research_id: lines 36-44.
BuildStartContext ==
    /\ unit.built = <<>>
    /\ unit' = Built("start_research", StartPreviousContext(ViewParent(unit.parent)))
    /\ UNCHANGED mvars

\* views.continue_research: lines 132-141.
BuildContinueContext ==
    /\ unit.built = <<>>
    /\ unit' = Built("continue_research", ContinuePreviousContext(ViewParent(unit.parent)))
    /\ UNCHANGED mvars

NextContext == BuildParentContext \/ BuildStartContext \/ BuildContinueContext

SpecContext == InitContext /\ [][NextContext]_vars

\* ================================================================ documents
\* One session of each variant, the documents uploaded for it, and the document
\* context one run builds from them.  MaxDocs: the uploads of a behaviour.
MaxDocs == 2

LowerChar(c) ==
    CASE c = "P" -> "p"
      [] c = "D" -> "d"
      [] c = "F" -> "f"
      [] OTHER -> c

\* str.lower()
Lower(text) == [i \in 1..Len(text) |-> LowerChar(text[i])]

\* str.endswith(suffix)
EndsWith(text, suffix) ==
    /\ Len(text) >= Len(suffix)
    /\ SubSeq(text, Len(text) - Len(suffix) + 1, Len(text)) = suffix

DotPdf == <<".", "p", "d", "f">>
DotTxt == <<".", "t", "x", "t">>

\* str(e) of what pdfplumber, open() or decode('utf-8') can raise.
ExtractionError == <<"extraction error">>

\* What extracting the text of a file gives: a text of 3, 3001 or 10000
\* characters, or an exception.
Extractions ==
    {[ok |-> TRUE, text |-> t] : t \in {<<"X", "X", "X">>, Blocks(6) \o <<"X">>, Blocks(20)}}
    \cup {[ok |-> FALSE, text |-> ExtractionError]}

\* request.FILES['file']
Files ==
    {[name |-> n, size |-> 1, content |-> c] :
        n \in {<<"a">> \o DotTxt, <<"B", ".", "P", "D", "F">>}, c \in Extractions}
    \cup {[name |-> <<"n", ".", "m", "d">>, size |-> 1, content |-> [ok |-> TRUE, text |-> <<>>]]}

\* DocumentService._generate_summary(text): what it can return.
DocumentSummaries(text) ==
    IF ~Truthy(text) \/ Chars(Strip(text)) < 50
    THEN {<<"Document too short to summarize.">>}
    ELSE {<<"D", "o", "c">>, <<"Summary generation failed: ">> \o UpstreamError}

\* The row of UploadedDocument.objects.create in process_upload (lines 446-452).
NewDocument(session, file) ==
    [session |-> session, filename |-> file.name,
     document_type |-> IF EndsWith(Lower(file.name), DotPdf) THEN "pdf" ELSE "txt",
     file_size |-> file.size, extracted_text |-> Null, summary |-> Null]

\* The row of ResearchDocument.objects.create in upload_document (lines 239-245).
NewResearchDocument(session, file, content) ==
    [research_session |-> session, filename |-> file.name,
     file_type |-> IF EndsWith(Lower(file.name), DotPdf) THEN "pdf" ELSE "txt",
     content |-> content, file_size |-> file.size]

\* One pending session of the services variant and one failed session of the
\* views variant; no upload in flight, no upload finished, no context built.
InitDocs ==
    /\ sessions = (1 :> NewSession(<<"Q", "?">>, 0))
    /\ costs = (1 :> NewCost)
    /\ vsessions = (1 :> SaveFailure(VNewSession("anonymous", <<"Q", "?">>, 0), UpstreamError))
    /\ summaries = <<>>
    /\ reasonings = <<>>
    /\ documents = <<>>
    /\ threads = <<>>
    /\ inflight = <<>>
    /\ http_response = NoResponse
    /\ unit = [upload |-> <<>>, last |-> <<>>, rdocuments |-> <<>>, context |-> <<>>]

\* DocumentService.process_upload(file, session) up to the created record.
process_upload ==
    \E file \in Files, session \in DOMAIN sessions :
        /\ unit.upload = <<>>
        /\ Len(documents) + Len(unit.rdocuments) < MaxDocs
        /\ documents' = Append(documents, NewDocument(session, file))
        /\ unit' = [unit EXCEPT !.upload = << [file |-> file, doc |-> Len(documents) + 1] >>]
        /\ UNCHANGED <<sessions, summaries, reasonings, costs, threads,
                       vsessions, inflight, http_response>>

\* process_upload from the extraction on (lines 454-473): the text and a summary
\* are saved, or the error text is; the document is returned.
process_upload_extract ==
    /\ unit.upload # <<>>
    /\ LET file == unit.upload[1].file
           d == unit.upload[1].doc
       IN /\ IF file.content.ok
             THEN \E summary \in DocumentSummaries(file.content.text) :
                     documents' = [documents EXCEPT
                         ![d].extracted_text = file.content.text,
                         ![d].summary = summary]
             ELSE documents' = [documents EXCEPT
                     ![d].extracted_text = <<"Error extracting text: ">> \o file.content.text,
                     ![d].summary =
                         <<"Could not generate summary due to extraction error.">>]
          /\ unit' = [unit EXCEPT
                 !.upload = <<>>,
                 !.last = << [handler |-> "process_upload",
                              extraction_failed |-> ~file.content.ok,
                              succeeded |-> TRUE, doc |-> d] >>]
    /\ UNCHANGED <<sessions, summaries, reasonings, costs, threads,
                   vsessions, inflight, http_response>>

\* views.upload_document(request, research_id), with or without a file.
upload_document ==
    \E research_id \in 1..2, given \in BOOLEAN, file \in Files :
        /\ Len(documents) + Len(unit.rdocuments) < MaxDocs
        /\ LET name == Lower(file.name)
               Answer(code, error, created) ==
                   /\ http_response' = Response(code, 0, "", error)
                   /\ unit' = [unit EXCEPT
                          !.rdocuments = IF created
                                         THEN Append(@, NewResearchDocument(
                                                  research_id, file, file.content.text))
                                         ELSE @,
                          !.last = << [handler |-> "upload_document",
                                       extraction_failed |->
                                           code \in {201, 500} /\ ~file.content.ok,
                                       succeeded |-> code = 201,
                                       doc |-> IF created THEN Len(unit.rdocuments) + 1
                                               ELSE 0] >>]
           IN IF research_id \notin DOMAIN vsessions
              THEN Answer(404, <<"Not found">>, FALSE)
              ELSE IF ~given
              THEN Answer(400, <<"No file provided">>, FALSE)
              ELSE IF ~(EndsWith(name, DotPdf) \/ EndsWith(name, DotTxt))
              THEN Answer(400, <<"Only PDF and TXT files are supported">>, FALSE)
              ELSE IF file.content.ok
              THEN Answer(201, Null, TRUE)
              ELSE Answer(500, <<"Failed to process document: ">> \o file.content.text, FALSE)
        /\ UNCHANGED <<sessions, summaries, reasonings, costs, documents, threads,
                       vsessions, inflight>>

\* doc_context = ResearchService._build_document_context(session), once in a
\* run (line 148), from the documents of the session at that time.
BuildDocumentContext ==
    /\ unit.context = <<>>
    /\ unit' = [unit EXCEPT !.context =
                   << [docs |-> DocsOf(1), text |-> _build_document_context(DocsOf(1))] >>]
    /\ UNCHANGED mvars

NextDocs ==
    \/ process_upload
    \/ process_upload_extract
    \/ BuildDocumentContext

SpecDocs == InitDocs /\ [][NextDocs]_vars

NextUpload ==
    \/ process_upload
    \/ process_upload_extract
    \/ upload_document

SpecUpload == InitDocs /\ [][NextUpload]_vars

\* ===================================================== token and cost accounting
\* One TokenTracker, the last get_stats() snapshot, one ResearchCost row and the
\* last result of the LangGraph client, each on its own.
MaxTokens == 6

\* Texts of 0, 1 and 3 tokens.
TrackedTexts == {<<>>, <<"a">>, <<"RESEARCH PLAN:", "x">>}

\* ResearchCost.calculate_cost: the row as self.save() stores it.
calculate_cost(row) ==
    [row EXCEPT !.estimated_cost =
                    DecimalMicros(row.input_tokens * PricingInput
                                  + row.output_tokens * PricingOutput),
                !.total_tokens = row.input_tokens + row.output_tokens]

InitCost ==
    /\ Empty
    /\ unit = [tracker |-> TokenTracker, stats |-> <<>>, cost |-> NewCost, result |-> <<>>]

\* tracker.add_input(text)
TrackInput ==
    \E text \in TrackedTexts :
        /\ unit.tracker.input_tokens + count_tokens(text) <= MaxTokens
        /\ unit' = [unit EXCEPT !.tracker = add_input(@, text)]
        /\ UNCHANGED mvars

\* tracker.add_output(text)
TrackOutput ==
    \E text \in TrackedTexts :
        /\ unit.tracker.output_tokens + count_tokens(text) <= MaxTokens
        /\ unit' = [unit EXCEPT !.tracker = add_output(@, text)]
        /\ UNCHANGED mvars

\* stats = tracker.get_stats()
TakeStats ==
    /\ unit' = [unit EXCEPT !.stats = << get_stats(unit.tracker) >>]
    /\ UNCHANGED mvars

\* Lines 185-193 of _execute_research on the snapshot.
WriteCost ==
    /\ unit.stats # <<>>
    /\ unit' = [unit EXCEPT !.cost = CostUpdate(@, unit.stats[1])]
    /\ UNCHANGED mvars

\* cost.calculate_cost()
CalculateCost ==
    /\ unit' = [unit EXCEPT !.cost = calculate_cost(@)]
    /\ UNCHANGED mvars

\* client.run_research(query) returns: a success result or a failure result.
ClientReturns ==
    \E q \in {<<"X", "?">>, <<" ">> \o LongQuery}, final_report \in ClientReports,
       ok \in BOOLEAN :
        \E cost \in _estimate_cost(EstimateTokens(full_query(q, Null)),
                                   IF Truthy(final_report)
                                   THEN EstimateTokens(final_report) ELSE 0) :
            /\ unit' = [unit EXCEPT !.result =
                           << IF ok THEN SuccessResult(q, Null, 1, final_report, cost)
                              ELSE FailureResult(1, UpstreamError) >>]
            /\ UNCHANGED mvars

NextCost ==
    \/ TrackInput
    \/ TrackOutput
    \/ TakeStats
    \/ WriteCost
    \/ CalculateCost
    \/ ClientReturns

SpecCost == InitCost /\ [][NextCost]_vars

\* ============================================================ runs, documents
\* The runs of Spec with documents uploaded for a session before its run builds
\* the document context.
InitRun ==
    /\ Empty
    /\ unit = [upload |-> <<>>, last |-> <<>>, rdocuments |-> <<>>, context |-> <<>>]

\* process_upload of a text file of 3001 characters for a session whose thread
\* has not read the documents yet.
UploadBeforeRun ==
    /\ process_upload
    /\ unit'.upload[1].file.name = <<"a">> \o DotTxt
    /\ unit'.upload[1].file.content = [ok |-> TRUE, text |-> Blocks(6) \o <<"X">>]
    /\ threads[documents'[Len(documents')].session].pc \in {"dispatched", "setup"}

NextRun ==
    \/ StartResearchView
    \/ ContinueResearchView
    \/ \E s \in SessionIds : ThreadStep(s)
    \/ UploadBeforeRun
    \/ process_upload_extract

SpecRun == InitRun /\ [][NextRun]_vars

\* ================================================================ claims
STATUS_CHOICES == {"pending", "running", "completed", "failed"}

Terminal == {"completed", "failed"}

StatusStep(a, b) ==
    \/ a = b
    \/ a = "pending" /\ b = "running"
    \/ a = "running" /\ b \in Terminal

\* C1: the persisted status of every session only moves pending -> running ->
\* completed or failed: every written status is one of the four choices, a new
\* session starts pending, and no step rewrites a terminal status.
C1_StatusMonotonic ==
    [][\A s \in DOMAIN sessions' :
          /\ sessions'[s].status \in STATUS_CHOICES
          /\ IF s \in DOMAIN sessions
             THEN StatusStep(sessions[s].status, sessions'[s].status)
             ELSE sessions'[s].status = "pending"]_vars

\* C2: once ResearchService.start_research / continue_research has returned (the
\* thread of the session exists), no reader sees the session pending.
C2_RunningWhenDispatched ==
    \A s \in DOMAIN threads : sessions[s].status # "pending"

\* C3: a session that a reader sees completed has its report, its summary row,
\* its reasoning row and the cost counters of its run persisted.
C3_CompletedIsWhole ==
    \A s \in Created :
        sessions[s].status = "completed" =>
            /\ sessions[s].final_report # Null
            /\ s \in DOMAIN summaries
            /\ s \in DOMAIN reasonings
            /\ costs[s] = CostUpdate(NewCost, get_stats(threads[s].tracker))

Invoked(s) == SelectSeq(threads[s].calls, LAMBDA c : c.ev = "invoke")
Returned(s) == SelectSeq(threads[s].calls, LAMBDA c : c.ev = "return")

\* C4: when llm.invoke of stage k raised, stages 1..k and no other were invoked,
\* nothing of a result is persisted (no summary row, no reasoning row, untouched
\* cost row), and the session is failed with the error text as its report.
C4_StageFailureAborts ==
    \A s \in DOMAIN threads :
        threads[s].failure = "llm" =>
            LET calls == threads[s].calls
                k == calls[Len(calls)].stage
            IN /\ calls[Len(calls)].ev = "error"
               /\ k \in 1..4
               /\ Len(Invoked(s)) = k
               /\ \A i \in 1..k : Invoked(s)[i].stage = i
               /\ Len(Returned(s)) = k - 1
               /\ s \notin DOMAIN summaries
               /\ s \notin DOMAIN reasonings
               /\ costs[s] = NewCost
               /\ sessions[s].status = "failed"
               /\ sessions[s].final_report = <<"Research failed: ">> \o UpstreamError

C4_Witness ==
    \E s \in DOMAIN threads :
        /\ threads[s].failure = "llm"
        /\ threads[s].stage = 3
        /\ threads[s].pc = "raised"

\* C5: a failed session has no completion time.
C5_FailedHasNoCompletionTime ==
    \A s \in Created :
        sessions[s].status = "failed" => sessions[s].completed_at = "None"

PipelineReturned(s) ==
    \/ threads[s].pc \in {"save_summary", "save_reasoning", "save_cost", "done"}
    \/ threads[s].failure = "persist"

\* C6: through every entry point, a session with a parent reference is created
\* only while the parent's status is completed.
C6_ChildOnlyOfCompletedParent ==
    [][\A s \in (DOMAIN vsessions') \ (DOMAIN vsessions) :
          vsessions'[s].parent_research # 0
              => vsessions[vsessions'[s].parent_research].status = "completed"]_vars

\* C7: no session exists for a request whose query is missing, empty or
\* whitespace only, and no run_research call is in flight for one.
C7_NoSessionForInvalidQuery ==
    /\ \A s \in DOMAIN vsessions :
          vsessions[s].query # Null /\ Strip(vsessions[s].query) # <<>>
    /\ \A s \in DOMAIN inflight :
          inflight[s].query # Null /\ Strip(inflight[s].query) # <<>>

\* C8: the LLM is invoked for the stages in the order plan, research, report,
\* summarize, each at most once, a stage only after the previous stage has
\* returned, and a run that returned a result invoked all four.
C8_StagesInOrder ==
    \A s \in DOMAIN threads :
        LET calls == threads[s].calls
        IN /\ Len(Invoked(s)) <= 4
           /\ \A i \in 1..Len(Invoked(s)) : Invoked(s)[i].stage = i
           /\ \A i \in 1..Len(calls) :
                 calls[i].ev = "invoke" /\ calls[i].stage > 1 =>
                     /\ calls[i - 1].ev = "return"
                     /\ calls[i - 1].stage = calls[i].stage - 1
           /\ PipelineReturned(s) =>
                 /\ Len(Invoked(s)) = 4
                 /\ Len(Returned(s)) = 4
                 /\ \A i \in 1..4 : Returned(s)[i].stage = i

C8_Witness ==
    \E s \in DOMAIN threads :
        /\ threads[s].pc = "done"
        /\ Len(Invoked(s)) = 4

\* C9: every session that is running eventually is completed or failed.
C9_RunningTerminates ==
    \A s \in SessionIds :
        (s \in Created /\ sessions[s].status = "running")
            ~> (s \in Created /\ sessions[s].status \in Terminal)

C9_Witness ==
    \E s \in DOMAIN threads :
        /\ sessions[s].trace_id = "uuid4"
        /\ threads[s].pc = "raised"
        /\ sessions[s].status = "failed"

C11_TotalIsInputPlusOutput ==
    /\ \A i \in 1..Len(unit.stats) :
          unit.stats[i].total_tokens
              = unit.stats[i].input_tokens + unit.stats[i].output_tokens
    /\ unit.cost.total_tokens = unit.cost.input_tokens + unit.cost.output_tokens
    /\ \A i \in 1..Len(unit.result) :
          unit.result[i].total_tokens
              = unit.result[i].input_tokens + unit.result[i].output_tokens

C11_Witness ==
    /\ unit.stats # <<>>
    /\ unit.cost.input_tokens > 0
    /\ unit.cost.output_tokens > 0
    /\ unit.cost.total_tokens = unit.stats[1].total_tokens
    /\ unit.result # <<>>
    /\ unit.result[1].output_tokens > 0

\* C12: along every sequence of add_input / add_output calls the two counters
\* only grow and get_cost() never decreases.
C12_CostNeverDecreases ==
    [][/\ unit'.tracker.input_tokens >= unit.tracker.input_tokens
       /\ unit'.tracker.output_tokens >= unit.tracker.output_tokens
       /\ get_cost(unit'.tracker) >= get_cost(unit.tracker)]_vars

C12_Witness ==
    /\ unit.tracker.input_tokens > 1
    /\ unit.tracker.output_tokens > 1
    /\ get_cost(unit.tracker) > 0

\* C13: the parser returns, without raising, a summary text, a sequence of text
\* key findings and a sequence of text sources, for every response.
C13_ParserIsTotal ==
    \A i \in 1..Len(unit.parsed) :
        LET r == unit.parsed[i]
        IN /\ r.raised = ""
           /\ \A j \in 1..Len(r.key_findings) : IsStr(r.key_findings[j])
           /\ \A j \in 1..Len(r.sources) : IsStr(r.sources[j])

\* A parse step of the response fails: a label is missing, or a list section is
\* not a valid JSON array.
LabelMissing(response) ==
    \E label \in {"SUMMARY:", "KEY_FINDINGS:", "SOURCES:"} :
        \A i \in 1..Len(response) : response[i] # label

ListInvalid(response) ==
    \E label \in {"KEY_FINDINGS:", "SOURCES:"} :
        /\ list_match(response, label).found
        /\ ~json_loads(list_match(response, label).span).ok

\* C14: whenever a parse step fails, the parser returns the fallback triple: the
\* first 500 characters of the response and the two fallback lists.
C14_FallbackWhenStepFails ==
    \A i \in 1..Len(unit.parsed) :
        LabelMissing(unit.response) \/ ListInvalid(unit.response) =>
            /\ unit.parsed[i].raised = ""
            /\ unit.parsed[i].summary = Prefix(unit.response, 500)
            /\ unit.parsed[i].key_findings = FallbackFindings
            /\ unit.parsed[i].sources = FallbackSources

\* C15: a response that matches the template gives back its summary, trimmed,
\* its key findings and its sources, element for element.
C15_TemplateRoundTrip ==
    \A i \in 1..Len(unit.parsed) :
        unit.template =>
            /\ unit.parsed[i].raised = ""
            /\ unit.parsed[i].summary = Strip(unit.summary)
            /\ unit.parsed[i].key_findings = unit.findings
            /\ unit.parsed[i].sources = unit.sources

\* text holds part at some place.
Contains(text, part) ==
    \E i \in 1..(Len(text) - Len(part) + 1) : SubSeq(text, i, i + Len(part) - 1) = part

\* How many characters of text are "X": the characters of the parent's report.
RECURSIVE ReportChars(_)
ReportChars(text) ==
    IF text = <<>> THEN 0
    ELSE (IF RunChar(Head(text)) = "X" THEN RunLength(Head(text)) ELSE 0)
         + ReportChars(Tail(text))

\* C16: the parent context holds the parent's query and then the parent's
\* summary, and nothing of the report, when the parent has a summary, else the
\* excerpt of the report; the block of _build_parent_context starts with the
\* begin marker and ends with the end marker and the build-upon instruction.
C16_SummaryElseExcerpt ==
    \A i \in 1..Len(unit.built) :
        LET context == unit.built[i].context
            parent == unit.parent
        IN /\ Contains(context, parent.query)
           /\ parent.summary # Null =>
                 /\ Contains(context, parent.summary)
                 /\ ReportChars(context) = 0
           /\ parent.summary = Null /\ Truthy(parent.report) =>
                 ReportChars(context) > 0
           /\ unit.built[i].path = "_build_parent_context" =>
                 /\ Head(context) = "=== PREVIOUS RESEARCH CONTEXT ==="
                 /\ Contains(context,
                        <<"=== END PREVIOUS CONTEXT ===", "\n", "\n",
                          "BUILD UPON this previous research. Do NOT repeat what was already covered.">>)
                 /\ context[Len(context)] =
                        "BUILD UPON this previous research. Do NOT repeat what was already covered."

\* C17: in every code path, the context of a parent with no summary holds
\* exactly the first min(2000, len(report)) characters of the parent's report.
C17_ExcerptIs2000 ==
    \A i \in 1..Len(unit.built) :
        unit.parent.summary = Null /\ Truthy(unit.parent.report) =>
            ReportChars(unit.built[i].context) = Min(2000, Chars(unit.parent.report))

\* C18: the context of a parent with neither summary nor report is built and
\* holds the "no previous findings" placeholder, and no other context holds it.
C18_PlaceholderWhenNothing ==
    \A i \in 1..Len(unit.built) :
        Contains(unit.built[i].context, <<"No previous findings">>)
            <=> (unit.parent.summary = Null /\ ~Truthy(unit.parent.report))

\* The characters of the extracted texts that a context of docs is to hold: of
\* each text that is present, min(3000, len).
RECURSIVE ExcerptChars(_)
ExcerptChars(docs) ==
    IF docs = <<>> THEN 0
    ELSE (IF Truthy(Head(docs).extracted_text)
          THEN Min(3000, ReportChars(Head(docs).extracted_text)) ELSE 0)
         + ExcerptChars(Tail(docs))

\* C19: the document context is empty exactly when the session has no document;
\* else it holds, for every document, the filename, the summary if present, and
\* the first min(3000, len) characters of the extracted text if present.
C19_DocumentContext ==
    \A i \in 1..Len(unit.context) :
        LET docs == unit.context[i].docs
            text == unit.context[i].text
        IN /\ (docs = <<>>) <=> (text = <<>>)
           /\ \A j \in 1..Len(docs) :
                 /\ Contains(text, <<"--- Document: ">> \o docs[j].filename)
                 /\ Truthy(docs[j].summary) =>
                        Contains(text, <<"Summary: ">> \o docs[j].summary)
                 /\ Truthy(docs[j].extracted_text) => Contains(text, <<"Content:", "\n">>)
           /\ ReportChars(text) = ExcerptChars(docs)

C19_Witness ==
    /\ unit.context # <<>>
    /\ Len(unit.context[1].docs) = 2
    /\ \E j \in 1..2 : unit.context[1].docs[j].extracted_text = Blocks(20)
    /\ \E j \in 1..2 : unit.context[1].docs[j].extracted_text = Null
    /\ ReportChars(unit.context[1].text) = 3000

\* C20: an upload whose text extraction failed succeeded all the same, a
\* document record exists for it with the error text as its content, and the
\* status of the session is what it was.
C20_UploadSurvivesExtractionFailure ==
    /\ sessions[1].status = "pending"
    /\ vsessions[1].status = "failed"
    /\ \A i \in 1..Len(unit.last) :
          LET up == unit.last[i]
          IN up.extraction_failed =>
                /\ up.succeeded
                /\ up.doc # 0
                /\ IF up.handler = "process_upload"
                   THEN Contains(documents[up.doc].extracted_text, ExtractionError)
                   ELSE Contains(unit.rdocuments[up.doc].content, ExtractionError)

\* The tokens the tracker calls `ev` of a log added.
RECURSIVE Counted(_, _)
Counted(log, ev) ==
    IF log = <<>> THEN 0
    ELSE (IF Head(log).ev = ev THEN Head(log).tokens ELSE 0) + Counted(Tail(log), ev)

\* The stages of the events `ev` of a log, the contexts left out.
StagesOf(log, ev) ==
    LET picked == SelectSeq(log, LAMBDA c : c.ev = ev /\ c.stage > 0)
    IN [i \in 1..Len(picked) |-> picked[i].stage]

\* C21: the prompt of a stage is recorded as input directly before the stage's
\* llm.invoke (while the invocation is in flight the last recording is the
\* token count of its prompt) and the response as output directly after it
\* returned, before the next prompt is recorded; the tracker holds what was
\* recorded; and when the invocation of stage k raised, the stage recordings
\* are the prompts of stages 1..k and the responses of stages 1..k-1.
C21_TrackedAroundEachStage ==
    \A s \in DOMAIN threads :
        LET t == threads[s]
            log == t.log
        IN /\ \A i \in 1..Len(log) :
                 /\ log[i].ev = "invoke" =>
                       /\ i > 1
                       /\ log[i - 1].ev = "add_input"
                       /\ log[i - 1].stage = log[i].stage
                 /\ log[i].ev = "add_input" /\ log[i].stage > 0 =>
                       /\ i < Len(log)
                       /\ log[i + 1] = Logged("invoke", log[i].stage, 0)
                       /\ log[i].stage > 1 =>
                              /\ log[i - 1].ev = "add_output"
                              /\ log[i - 1].stage = log[i].stage - 1
                 /\ log[i].ev = "return" =>
                       /\ i < Len(log)
                       /\ log[i + 1].ev = "add_output"
                       /\ log[i + 1].stage = log[i].stage
                 /\ log[i].ev = "add_output" =>
                       /\ i > 1
                       /\ log[i - 1] = Logged("return", log[i].stage, 0)
                       /\ log[i].tokens = count_tokens(Returned(s)[log[i].stage].text)
           /\ t.pc = "llm" =>
                 /\ log[Len(log)] = Logged("invoke", t.stage, 0)
                 /\ log[Len(log) - 1] =
                        Logged("add_input", t.stage, count_tokens(StagePrompt(t.stage, t)))
           /\ t.tracker.input_tokens = Counted(log, "add_input")
           /\ t.tracker.output_tokens = Counted(log, "add_output")
           /\ t.failure = "llm" =>
                 /\ StagesOf(log, "add_input") = [i \in 1..t.stage |-> i]
                 /\ StagesOf(log, "add_output") = [i \in 1..(t.stage - 1) |-> i]
                 /\ Len(Returned(s)) = t.stage - 1

\* A run whose third invocation raised, after two responses were counted.
C21_Witness ==
    \E s \in DOMAIN threads :
        /\ threads[s].failure = "llm"
        /\ threads[s].stage = 3
        /\ StagesOf(threads[s].log, "add_output") = <<1, 2>>
        /\ threads[s].tracker.output_tokens = 8

\* What a fresh tracker holds after the tracker calls of one run's log, and no
\* other, were made on it.
AloneTracker(log) ==
    [input_tokens |-> Counted(log, "add_input"),
     output_tokens |-> Counted(log, "add_output")]

\* C22: however the runs of different sessions interleave, the cost row of a
\* session is the untouched row until its own run writes it, and then holds the
\* totals and the cost of the run's own prompts and responses counted alone on a
\* fresh tracker; the tracker a run holds never has anything else in it.
C22_CountersConfinedToRun ==
    \A s \in DOMAIN threads :
        /\ threads[s].tracker = AloneTracker(threads[s].log)
        /\ costs[s] = IF threads[s].pc = "done"
                      THEN CostUpdate(NewCost, get_stats(AloneTracker(threads[s].log)))
                      ELSE NewCost

\* The second run has written its cost row while the first, dispatched before
\* it, is still waiting for its second stage.
C22_Witness ==
    /\ DOMAIN threads = {1, 2}
    /\ threads[1].pc = "llm"
    /\ threads[1].stage = 2
    /\ threads[2].pc = "done"
    /\ costs[2].input_tokens > 0
    /\ costs[2].output_tokens > 0
    /\ costs[1] = NewCost

\* C23: after a run that succeeded, the persisted input tokens are the count of
\* the parent context (when a parent was given), the count of the document
\* context and the counts of the four prompts, so a context is counted three
\* times (on its own and inside the planning and the research prompt); the
\* persisted output tokens are the counts of the four responses.
C23_PersistedCounts ==
    \A s \in DOMAIN threads :
        threads[s].pc = "done" =>
            LET t == threads[s]
                contexts == (IF t.parent # 0 THEN count_tokens(t.parent_context) ELSE 0)
                            + count_tokens(t.doc_context)
                prompts ==
                    count_tokens(planning_prompt(t.parent_context, t.doc_context, t.query))
                    + count_tokens(research_prompt(t.parent_context, t.doc_context,
                                                   t.query_plan, t.query))
                    + count_tokens(report_prompt(t.research_findings, t.query))
                    + count_tokens(summary_prompt(t.final_report))
            IN /\ costs[s].input_tokens = contexts + prompts
               /\ costs[s].input_tokens >= 3 * contexts
               /\ costs[s].output_tokens =
                      count_tokens(t.query_plan) + count_tokens(t.research_findings)
                      + count_tokens(t.final_report) + count_tokens(t.summary_text)

\* A continuation with an extracted document has finished.
C23_Witness ==
    \E s \in DOMAIN threads :
        /\ threads[s].pc = "done"
        /\ threads[s].parent # 0
        /\ Truthy(threads[s].parent_context)
        /\ Contains(threads[s].doc_context, <<"Content:", "\n">>)
        /\ costs[s].input_tokens > 3 * count_tokens(threads[s].doc_context)

\* C24: in the synchronous variant a session whose handler has returned (no
\* run_research call of it is in flight) is completed or failed, whether
\* run_research returned a success result, returned a failure result or raised;
\* only a session whose handler is still waiting is processing, and the answer
\* of a handler that ran the research names a terminal status.
C24_TerminalWhenHandlerReturns ==
    /\ \A s \in VCreated :
          IF s \in DOMAIN inflight
          THEN vsessions[s].status = "processing"
          ELSE vsessions[s].status \in Terminal
    /\ http_response.code \in {201, 500} /\ http_response.research_id # 0 =>
          /\ http_response.research_id \notin DOMAIN inflight
          /\ vsessions[http_response.research_id].status \in Terminal
          /\ http_response.status = "completed" => http_response.code = 201

\* Both handlers have returned: one session was saved from a success result, the
\* other from a failure, and the last answer was the 500 of the failure.
C24_Witness ==
    /\ VCreated = {1, 2}
    /\ inflight = <<>>
    /\ vsessions[1].status = "completed"
    /\ vsessions[2].status = "failed"
    /\ vsessions[2].error_message = UpstreamError
    /\ http_response.code = 500

\* What json.loads gave for the section of a label: the empty list when the
\* section did not match.
Loaded(response, label) ==
    IF list_match(response, label).found
    THEN json_loads(list_match(response, label).span)
    ELSE JsonList(<<>>)

\* json.loads raised JSONDecodeError on the findings section, or on the sources
\* section after the findings were loaded.
DecodeErrorOccurred(response) ==
    \/ Loaded(response, "KEY_FINDINGS:").raised = "JSONDecodeError"
    \/ /\ Loaded(response, "KEY_FINDINGS:").ok
       /\ Loaded(response, "SOURCES:").raised = "JSONDecodeError"

\* The summary the first step extracted: empty when the section did not match.
ExtractedSummary(response) ==
    IF summary_match(response).found THEN Strip(summary_match(response).span) ELSE <<>>

\* C25: a result the parser returns is never a mix: without a JSON decoding
\* error the summary and both lists are the extracted ones (empty for a section
\* that did not match); with a decoding error in the findings or in the sources
\* section the summary is the first 500 characters of the response and both
\* lists are the fallback lists, whatever had been extracted before the error.
C25_AllExtractedOrAllFallback ==
    \A i \in 1..Len(unit.parsed) :
        LET r == unit.parsed[i]
            response == unit.response
        IN r.raised = "" =>
              IF DecodeErrorOccurred(response)
              THEN /\ r.summary = Prefix(response, 500)
                   /\ r.key_findings = FallbackFindings
                   /\ r.sources = FallbackSources
              ELSE /\ r.summary = ExtractedSummary(response)
                   /\ r.key_findings = Loaded(response, "KEY_FINDINGS:").value
                   /\ r.sources = Loaded(response, "SOURCES:").value

\* The sources section failed to decode after a summary and a list of findings
\* had been extracted, and the result holds neither of them.
C25_Witness ==
    /\ unit.parsed # <<>>
    /\ unit.parsed[1].raised = ""
    /\ Truthy(ExtractedSummary(unit.response))
    /\ Loaded(unit.response, "KEY_FINDINGS:").ok
    /\ Loaded(unit.response, "KEY_FINDINGS:").value # <<>>
    /\ Loaded(unit.response, "SOURCES:").raised = "JSONDecodeError"
    /\ unit.parsed[1].summary # ExtractedSummary(unit.response)
    /\ unit.parsed[1].key_findings = FallbackFindings

====
